---- MODULE Spec2Model ----
(***************************************************************************)
(* Model of src/modules/music/Music.js: the Music module of the bot.  It   *)
(* keeps, per guild, the bound text channel, the volume and the skip votes, *)
(* and drives the queue module (music:queue) and the player module          *)
(* (music:player).  Every async method is cut at its awaits: one action per *)
(* synchronous stretch of code, with the calls in flight kept in `calls`.   *)
(***************************************************************************)
EXTENDS Integers, Sequences, FiniteSets, Bags, TLC

\* ------------------------------------------------------------------ bounds
MaxCalls == 2      \* async calls in flight at once
MaxQueue == 2      \* items a guild's queue holds
MaxStreams == 2    \* streams the player is asked to keep running at once
MaxMembers == 5    \* members of a voice channel
NumVoters == 3     \* distinct message authors
NumUrls == 2       \* distinct media references
MaxFormats == 2    \* candidate streams in a format list

\* --------------------------------------------------------- program constants
MaxLength == 5400      \* add: mediaInfo.length > 5400
MinVoteMembers == 2    \* skip: channel.members > 2
DefaultVolume == 2     \* play: this.volume.get(guildId) || 2
ExpireMargin == 900    \* getInfo: parseInt(match[1]) - 900
ExpireOffset == 300    \* getInfo: Date.now() - info.expires - 300

\* ------------------------------------------------------------------ values
None == "none"
Guilds == {"g1", "g2"}
ChannelIds == {"c1", "c2"}
VoiceIds == {"v1"}
Voters == 1..NumVoters
Urls == 1..NumUrls

\* a falsy textChannel argument
Null == [null |-> TRUE]
\* textChannel arguments of connect: null, a channel without guild, a guild channel
TextChannels == {Null} \cup [id : ChannelIds, guild : Guilds \cup {None}]

\* JavaScript values kept in this.votes: absent, the number 0, or an array
Undefined == [t |-> "undefined"]
Zero == [t |-> "number", n |-> 0]
Array(a) == [t |-> "array", a |-> a]

VARIABLES
  connections,       \* this.connections : guild id -> text channel id (None: no entry)
  volume,            \* this.volume : guild id -> stored multiplier in hundredths (-1: no entry)
  votes,             \* this.votes : guild id -> Undefined | Zero | Array
  queue,             \* music:queue : guild id -> sequence of items
  voiceConnections,  \* client.voiceConnections : guild id -> -1 (no connection) or
                     \*   the number of streams the player has running on it
  calls,             \* the async calls suspended at an await (a bag of records)
  last               \* the step just taken: operation, inputs, result, player calls

vars == <<connections, volume, votes, queue, voiceConnections, calls, last>>

\* ---------------------------------------------------------------- helpers
\* at most n calls are in flight after the step
AtMost(n) == BagCardinality(calls') <= n
Suspend(c) == calls (+) SetToBag({c})
Resume(c) == calls (-) SetToBag({c})
Pending == BagToSet(calls)

\* Music.js:23-25
bindChannel(conns, guildID, textChannelID) ==
  [conns EXCEPT ![guildID] = textChannelID]

\* Music.js:27-29
unbindChannel(conns, guildID) ==
  [conns EXCEPT ![guildID] = None]

\* Music.js:31-33
getBoundChannel(guildID) == connections[guildID]

\* ------------------------------------------------------- binding operations
BindChannel(g, c) ==
  /\ connections' = bindChannel(connections, g, c)
  /\ last' = [op |-> "bindChannel", g |-> g, c |-> c, bound |-> connections[g],
              res |-> "undefined"]
  /\ UNCHANGED <<volume, votes, queue, voiceConnections, calls>>

UnbindChannel(g) ==
  /\ connections' = unbindChannel(connections, g)
  /\ last' = [op |-> "unbindChannel", g |-> g, bound |-> connections[g],
              res |-> "undefined"]
  /\ UNCHANGED <<volume, votes, queue, voiceConnections, calls>>

\* connect checks the permissions before the binding
ConnectWrongOrder(voiceID, textChannel, perms) ==
  IF voiceID = None \/ textChannel = Null \/ textChannel.guild = None
  THEN "notChannel"
  ELSE IF ~perms
  THEN "noPerms"
  ELSE LET channel == connections[textChannel.guild] IN
       IF channel # None /\ channel # textChannel.id THEN "alreadyBinded" ELSE "join"

\* the result of connect's checks, in the order the code makes them
\* (Music.js:44-55); "join" when all pass
connectChecks(voiceID, textChannel, perms) ==
  IF voiceID = None \/ textChannel = Null \/ textChannel.guild = None
  THEN "notChannel"
  ELSE LET channel == connections[textChannel.guild] IN
       IF channel # None /\ channel # textChannel.id
       THEN "alreadyBinded"
       ELSE IF ~perms THEN "noPerms" ELSE "join"

\* connect binds the new channel even when it answers alreadyBinded
ConnectNoReject(conns, voiceID, textChannel, perms) ==
  IF voiceID = None \/ textChannel = Null \/ textChannel.guild = None
  THEN conns
  ELSE bindChannel(conns, textChannel.guild, textChannel.id)

\* the bindings after connect's synchronous part: line 52 runs once the
\* first two checks have passed, before the permission check of line 53
connectBinding(conns, voiceID, textChannel, perms) ==
  IF connectChecks(voiceID, textChannel, perms) \in {"noPerms", "join"}
  THEN bindChannel(conns, textChannel.guild, textChannel.id)
  ELSE conns

\* connect, up to its await of joinVoiceChannel (Music.js:43-57).
\* perms is what hasPermissions answers.
Connect(voiceID, textChannel, perms) ==
  LET res == connectChecks(voiceID, textChannel, perms)
      g == IF textChannel = Null THEN None ELSE textChannel.guild
  IN /\ connections' = connectBinding(connections, voiceID, textChannel, perms)
     /\ calls' = IF res = "join"
                 THEN Suspend([pc |-> "connect:join", g |-> g, voiceID |-> voiceID])
                 ELSE calls
     /\ last' = [op |-> "connect", g |-> g, voiceID |-> voiceID,
                 textChannel |-> textChannel, perms |-> perms,
                 bound |-> IF g = None THEN None ELSE connections[g],
                 res |-> IF res = "join" THEN "pending" ELSE res,
                 joinVoiceChannel |-> (res = "join")]
     /\ UNCHANGED <<volume, votes, queue, voiceConnections>>

\* joinVoiceChannel settles (Music.js:56-61): the connection, or 'error'
ConnectJoined(c, ok) ==
  /\ c \in Pending /\ c.pc = "connect:join"
  /\ calls' = Resume(c)
  /\ voiceConnections' =
       IF ok /\ voiceConnections[c.g] = -1
       THEN [voiceConnections EXCEPT ![c.g] = 0] ELSE voiceConnections
  /\ last' = [op |-> "connect:join", g |-> c.g, ok |-> ok,
              res |-> IF ok THEN "connection" ELSE "error"]
  /\ UNCHANGED <<connections, volume, votes, queue>>

\* ------------------------------------------------------------ music:queue
\* The queue module is not part of Music.js; its operations follow the
\* interface Music.js uses: add(guild, item, playNow), getLength, shift, remove.
queueAdd(q, item, playNow) == IF playNow THEN <<item>> \o q ELSE Append(q, item)
queueLength(q) == Len(q)
queueShift(q) == IF q = <<>> THEN q ELSE Tail(q)
\* remove leaves the queue as it is
QueueRemoveKeeps(q) == q
queueRemove(q) == <<>>
\* what shift gives on an empty queue
QueueEmpty == [empty |-> TRUE]

\* ------------------------------------------------------------------- skip
\* this.votes.get(id) || []
votesOrEmpty(v) == IF v.t = "array" THEN v.a ELSE <<>>

\* vote.includes(id)
includes(vote, id) == \E i \in 1..Len(vote) : vote[i] = id

\* (vote.length / channel.members) < 0.5, on integers
belowQuorum(n, members) == 2 * n < members

\* skip asks for a strict majority
SkipStrictMajority(v, len, author, force, members) ==
  IF len <= 1 THEN "undefined"
  ELSE IF ~force /\ members > MinVoteMembers
  THEN IF includes(votesOrEmpty(v), author) THEN "alreadyVoted"
       ELSE IF 2 * (Len(votesOrEmpty(v)) + 1) <= members
            THEN "voteSuccess" ELSE "skip"
  ELSE "skip"

\* skip counts a repeated vote again
SkipDoubleCount(v, len, author, force, members) ==
  IF len <= 1 THEN "undefined"
  ELSE IF ~force /\ members > MinVoteMembers
  THEN IF belowQuorum(Len(votesOrEmpty(v)) + 1, members)
       THEN "voteSuccess" ELSE "skip"
  ELSE "skip"

\* what skip does once the queue length is known (Music.js:204-222):
\* "undefined" (nothing to skip to), "alreadyVoted", "voteSuccess", or
\* "skip" (player.skip is called and its promise returned)
skipOutcome(v, len, author, force, members) ==
  IF len <= 1 THEN "undefined"
  ELSE IF ~force /\ members > MinVoteMembers
  THEN IF includes(votesOrEmpty(v), author) THEN "alreadyVoted"
       ELSE IF belowQuorum(Len(votesOrEmpty(v)) + 1, members)
            THEN "voteSuccess" ELSE "skip"
  ELSE "skip"

\* the guild's entry of this.votes after those lines: the pushed array is
\* stored below quorum (line 215), the number 0 at quorum (line 218)
skipVotes(v, len, author, force, members) ==
  LET res == skipOutcome(v, len, author, force, members) IN
  IF len <= 1 \/ force \/ members <= MinVoteMembers \/ res = "alreadyVoted" THEN v
  ELSE IF res = "voteSuccess"
       THEN Array(Append(votesOrEmpty(v), author))
       ELSE Zero

\* skip, up to its await of queue.getLength (Music.js:202-204)
Skip(g, author, force) ==
  /\ calls' = Suspend([pc |-> "skip:getLength", g |-> g, author |-> author,
                       force |-> force, len |-> queueLength(queue[g])])
  /\ last' = [op |-> "skip:call", g |-> g, res |-> "pending"]
  /\ UNCHANGED <<connections, volume, votes, queue, voiceConnections>>

\* skip, after that await (Music.js:204-222); members is channel.members as
\* read at line 206
SkipResume(c, members) ==
  /\ c \in Pending /\ c.pc = "skip:getLength"
  /\ LET res == skipOutcome(votes[c.g], c.len, c.author, c.force, members) IN
     /\ votes' = [votes EXCEPT ![c.g] =
                    skipVotes(votes[c.g], c.len, c.author, c.force, members)]
     /\ last' = [op |-> "skip", g |-> c.g, author |-> c.author, force |-> c.force,
                 len |-> c.len, members |-> members,
                 before |-> votesOrEmpty(votes[c.g]),
                 res |-> res,
                 player |-> IF res = "skip" THEN <<"skip">> ELSE <<>>]
  /\ calls' = Resume(c)
  /\ UNCHANGED <<connections, volume, queue, voiceConnections>>

\* ------------------------------------------------------------ music:player
\* The player module is not part of Music.js either.  A connection's number
\* counts the streams the player has been told to start and that have not
\* ended: play starts one, stop ends them all.
playerPlay(vc, g) == IF vc[g] = -1 THEN vc ELSE [vc EXCEPT ![g] = @ + 1]
playerStop(vc, g) == IF vc[g] = -1 THEN vc ELSE [vc EXCEPT ![g] = 0]

\* Music.js:144-148, for connection state n
playingState(n) == IF n = -1 THEN FALSE ELSE n > 0
getPlayingState(g) == playingState(voiceConnections[g])

\* --------------------------------------------------------------- getInfo
\* The resolver backend's answer for a reference is that reference's video:
\* reference u has length_seconds MaxLength - 1 + u.
length_seconds(url) == MaxLength - 1 + url

\* formattedInfo (Music.js:106-116), the fields the module reads later
Info(url) == [url |-> url, audiourl |-> TRUE, length |-> length_seconds(url)]

\* mediaInfo arguments a caller may hand to queueSong or play
MediaInfos == {[url |-> u, audiourl |-> a, length |-> length_seconds(u)] :
                 u \in Urls, a \in BOOLEAN}

\* what redis.getAsync gives: an error, no entry, an entry that is not
\* JSON, the entry "null", or the entry stored for the reference
CacheReads == {"error", "miss", "corrupt", "null", "hit"}
\* what ytdl.getInfoAsync gives: an error, info without video_id, info
\* with no usable audio format, or info with one
LiveReads == {"error", "noVideo", "noAudio", "ok"}

Resolved(v) == [t |-> "resolve", v |-> v]
Rejected(e) == [t |-> "reject", e |-> e]

\* Music.js:85-120
getInfo(url, cache, live) ==
  IF cache = "hit" THEN Resolved(Info(url))
  ELSE IF cache = "null" THEN Resolved(Null)
  ELSE IF cache = "corrupt" THEN Rejected("SyntaxError")
  ELSE IF live = "error" THEN Rejected("error")
  ELSE IF live = "noVideo" THEN Rejected("noVideoFound")
  ELSE IF live = "noAudio" THEN Rejected("TypeError")
  ELSE Resolved(Info(url))

\* every way getInfo can settle for a reference
getInfoResults(url) == {getInfo(url, c, l) : c \in CacheReads, l \in LiveReads}

\* ------------------------------------------------- the resolver in detail
\* A candidate stream of the backend's info.formats: its itag, its
\* audioBitrate (0: none), its bitrate (the video bitrate, 0: none) and its
\* url: -1 for no url, 0 for a url without an expire parameter, E > 0 for a
\* url that carries &expire=E.
Itags == {250, 140, 18, 43}
Container(itag) == IF itag \in {250, 43} THEN "webm" ELSE "mp4"
AudioBitrates == {0, 70, 128}
FormatsOf(urls) ==
  [itag : Itags, audioBitrate : AudioBitrates, bitrate : {0, 1}, url : urls]

\* the outcomes of a selection: a stream with its _format tag, undefined,
\* or a TypeError thrown
Found(f, type) == [found |-> f, _format |-> type]
Thrown(e) == [thrown |-> e]

\* formats.sort((a, b) => b.audioBitrate - a.audioBitrate), Music.js:65:
\* descending, streams of equal audioBitrate keep their order
RECURSIVE sortInsert(_, _)
sortInsert(f, s) ==
  IF s = <<>> THEN <<f>>
  ELSE IF Head(s).audioBitrate >= f.audioBitrate
  THEN <<Head(s)>> \o sortInsert(f, Tail(s))
  ELSE <<f>> \o s

RECURSIVE sortFormats(_)
sortFormats(s) ==
  IF s = <<>> THEN <<>>
  ELSE sortInsert(s[Len(s)], sortFormats(SubSeq(s, 1, Len(s) - 1)))

\* Music.js:64-71
getFormatUrl(type, formats) ==
  LET sorted == sortFormats(formats)
      IsAudioOnly(f) == f.audioBitrate > 0 /\ f.bitrate = 0
      IsAudio(f) == f.audioBitrate > 0
      only == SelectSeq(sorted, IsAudioOnly)
      any == SelectSeq(sorted, IsAudio)
      bestaudio == IF only # <<>> THEN only ELSE any
  IN  IF bestaudio = <<>> THEN Thrown("TypeError")
      ELSE IF bestaudio[1].url = -1 THEN Undefined
      ELSE Found(bestaudio[1], type)

WebmItags == {249, 250, 251}
Mp4Itags == {141, 140, 139}

\* getBestAudio looks for the mp4 itags first
BestAudioMp4First(formats) ==
  LET IsWebm(f) == f.itag \in WebmItags
      IsMp4(f) == f.itag \in Mp4Itags
      IsMp4Container(f) == Container(f.itag) = "mp4"
      mp4 == IF SelectSeq(formats, IsMp4) # <<>> THEN SelectSeq(formats, IsMp4)
             ELSE SelectSeq(formats, IsMp4Container)
  IN  IF mp4 # <<>> THEN getFormatUrl("mp4", mp4)
      ELSE IF SelectSeq(formats, IsWebm) # <<>>
      THEN getFormatUrl("webm", SelectSeq(formats, IsWebm))
      ELSE Undefined

\* Music.js:73-83
getBestAudio(formats) ==
  LET IsWebm(f) == f.itag \in WebmItags
      IsMp4(f) == f.itag \in Mp4Itags
      IsMp4Container(f) == Container(f.itag) = "mp4"
      webm == SelectSeq(formats, IsWebm)
      mp4 == IF SelectSeq(formats, IsMp4) # <<>> THEN SelectSeq(formats, IsMp4)
             ELSE SelectSeq(formats, IsMp4Container)
  IN  IF webm # <<>> THEN getFormatUrl("webm", webm)
      ELSE IF mp4 # <<>> THEN getFormatUrl("mp4", mp4)
      ELSE Undefined

\* a number held in a field that may also hold null
Num(n) == [n |-> n]

\* info.expires, Music.js:100-105, for the chosen stream's url: 0 stands
\* for a field that was never set
infoExpires(url) == IF url > 0 THEN url - ExpireMargin ELSE 0

\* the expires field of formattedInfo, Music.js:114, at Date.now() = now
formattedExpires(url, now) ==
  IF infoExpires(url) # 0 THEN Num(now - infoExpires(url) - ExpireOffset)
  ELSE Null

\* what ytdl.getInfoAsync gives, in detail: "error" for a rejection, Null
\* for info without video_id, or the candidate streams of the video
liveRead(info) ==
  IF info = [error |-> TRUE] THEN "error"
  ELSE IF info = Null THEN "noVideo"
  ELSE IF getBestAudio(info.formats) \in {Undefined, Thrown("TypeError")}
  THEN "noAudio"
  ELSE "ok"

\* getInfo after a cache read that gave nothing (Music.js:90-119)
getInfoLive(url, info, now) ==
  IF liveRead(info) # "ok" THEN getInfo(url, "miss", liveRead(info))
  ELSE Resolved([url |-> url, audiourl |-> TRUE, length |-> length_seconds(url),
                 expires |-> formattedExpires(
                               getBestAudio(info.formats).found.url, now)])

\* getInfo, up to its await of redis.getAsync (Music.js:85-87)
GetInfo(url) ==
  /\ calls' = Suspend([pc |-> "getInfo:redis", url |-> url])
  /\ last' = [op |-> "getInfo:call", g |-> None, res |-> "pending", player |-> <<>>]
  /\ UNCHANGED <<connections, volume, votes, queue, voiceConnections>>

\* getInfo, after the cache read (Music.js:87-91): an entry is parsed and
\* returned, anything else goes on to ytdl.getInfoAsync
GetInfoCache(c, cache) ==
  /\ c \in Pending /\ c.pc = "getInfo:redis"
  /\ cache \in CacheReads
  /\ IF cache \in {"error", "miss"}
     THEN /\ calls' = Resume(c) (+)
                SetToBag({[pc |-> "getInfo:ytdl", url |-> c.url, cache |-> cache]})
          /\ last' = [op |-> "getInfo:redis", g |-> None, res |-> "pending",
                      player |-> <<>>]
     ELSE /\ calls' = Resume(c)
          /\ last' = [op |-> "getInfo", g |-> None, url |-> c.url, cache |-> cache,
                      live |-> "notCalled", info |-> Null, expire |-> 0, now |-> 0,
                      res |-> getInfo(c.url, cache, "ok"), player |-> <<>>]
  /\ UNCHANGED <<connections, volume, votes, queue, voiceConnections>>

\* getInfo, after ytdl.getInfoAsync (Music.js:91-119), at Date.now() = now
GetInfoLive(c, info, now) ==
  /\ c \in Pending /\ c.pc = "getInfo:ytdl"
  /\ calls' = Resume(c)
  /\ last' = [op |-> "getInfo", g |-> None, url |-> c.url, cache |-> c.cache,
              live |-> liveRead(info), info |-> info,
              expire |-> IF liveRead(info) = "ok"
                         THEN getBestAudio(info.formats).found.url ELSE 0,
              now |-> now,
              res |-> getInfoLive(c.url, info, now), player |-> <<>>]
  /\ UNCHANGED <<connections, volume, votes, queue, voiceConnections>>

\* getBestAudio applied to the candidate list drawn at the start
GetBestAudio ==
  /\ last.op = "formats"
  /\ last' = [op |-> "getBestAudio", g |-> None, formats |-> last.formats,
              res |-> getBestAudio(last.formats), player |-> <<>>]
  /\ UNCHANGED <<connections, volume, votes, queue, voiceConnections, calls>>

\* ------------------------------------------------------- queueSong and add
\* add rejects a length of exactly 5400 too
TooLongAtLimit(mediaInfo) ==
  mediaInfo # Null /\ mediaInfo.length # 0 /\ mediaInfo.length >= MaxLength

\* Music.js:160
tooLong(mediaInfo) ==
  mediaInfo # Null /\ mediaInfo.length # 0 /\ mediaInfo.length > MaxLength

\* queueSong inserts at the front whatever the playing state
QueueSongAlwaysFront(q, mediaInfo, playing) == queueAdd(q, mediaInfo, TRUE)

\* the queue after queueSong's queue.add (Music.js:124 when nothing plays,
\* 140 otherwise)
queueSongAdd(q, mediaInfo, playing) == queueAdd(q, mediaInfo, ~playing)

\* queueSong, up to its first await (Music.js:122-124, 140-141): rest is the
\* bag of the other calls in flight, via the caller ("add" or "queueSong").
\* On a playing session only the return is left after the await.
queueSongEnter(g, mediaInfo, rest, via) ==
  LET playing == getPlayingState(g) IN
  /\ Len(queue[g]) < MaxQueue
  /\ queue' = [queue EXCEPT ![g] = queueSongAdd(@, mediaInfo, playing)]
  /\ calls' = IF playing THEN rest
              ELSE rest (+) SetToBag({[pc |-> "queueSong:add", g |-> g,
                                       mediaInfo |-> mediaInfo,
                                       len0 |-> Len(queue[g])]})
  /\ last' = [op |-> "queueSong", via |-> via, g |-> g, mediaInfo |-> mediaInfo,
              playing |-> playing, before |-> queue[g],
              res |-> IF playing THEN "mediaInfo" ELSE "pending",
              player |-> <<>>]
  /\ UNCHANGED <<connections, volume, votes, voiceConnections>>

\* a direct call of queueSong
QueueSong(g, mediaInfo) ==
  /\ queueSongEnter(g, mediaInfo, calls, "queueSong")

\* add, up to its await of getInfo (Music.js:150-156).  ref.object says
\* whether the argument is an object, ref.url is the string (0: not a string).
\* Line 153 replaces the literal text '/<|>/g', which no reference holds, so
\* the reference goes to getInfo as it came.
Add(g, ref) ==
  /\ IF ref.url = 0
     THEN /\ calls' = calls
          /\ last' = [op |-> "add", g |-> g, res |-> "invalidURL",
                      before |-> queue[g], player |-> <<>>]
     ELSE /\ calls' = Suspend([pc |-> "add:getInfo", g |-> g, url |-> ref.url])
          /\ last' = [op |-> "add:call", g |-> g, res |-> "pending", player |-> <<>>]
  /\ UNCHANGED <<connections, volume, votes, queue, voiceConnections>>

\* add, after getInfo has settled (Music.js:157-163)
AddResume(c, r) ==
  /\ c \in Pending /\ c.pc = "add:getInfo"
  /\ r \in getInfoResults(c.url)
  /\ IF r.t = "reject" \/ tooLong(r.v)
     THEN /\ calls' = Resume(c)
          /\ last' = [op |-> "add", g |-> c.g,
                      res |-> IF r.t = "reject" THEN r.e ELSE "tooLong",
                      length |-> IF r.t = "reject" THEN 0 ELSE r.v.length,
                      before |-> queue[c.g], player |-> <<>>]
          /\ UNCHANGED <<connections, volume, votes, queue, voiceConnections>>
     ELSE queueSongEnter(c.g, r.v, Resume(c), "add")

\* ------------------------------------------------------------------- play
\* the volume argument of a player.play call that passes none (Music.js:127)
NoVolume == -1
\* this.volume.get(guildId) || 2, in hundredths
playVolume(v) == IF v = -1 \/ v = 0 THEN DefaultVolume * 100 ELSE v

\* play, up to its await of queue.getLength (Music.js:166-171).  alone says
\* that the bot is the voice channel's only member; rest is the bag of the
\* other calls in flight.
playEnter(g, mediaInfo, alone, vc, rest, op) ==
  IF alone
  THEN /\ voiceConnections' = playerStop(vc, g)
       /\ calls' = rest
       /\ last' = [op |-> op, g |-> g, playing |-> playingState(vc[g]),
                   res |-> "player.stop", player |-> <<"stop">>]
  ELSE /\ voiceConnections' = vc
       /\ calls' = rest (+) SetToBag({[pc |-> "play:getLength", g |-> g,
                                       mediaInfo |-> mediaInfo,
                                       len |-> queueLength(queue[g]),
                                       retries |-> 0]})
       /\ last' = [op |-> op, g |-> g, playing |-> playingState(vc[g]),
                   res |-> "pending", player |-> <<>>]

\* queueSong, after its queue.add on a session that was not playing
\* (Music.js:125-138)
QueueSongResume(c, alone) ==
  /\ c \in Pending /\ c.pc = "queueSong:add"
  /\ IF c.mediaInfo = Null
     THEN /\ calls' = Resume(c)
          /\ last' = [op |-> "queueSong:start", g |-> c.g, res |-> "TypeError",
                      len0 |-> c.len0, playing |-> getPlayingState(c.g),
                      player |-> <<>>]
          /\ UNCHANGED voiceConnections
     ELSE IF c.mediaInfo.audiourl
     THEN /\ voiceConnections[c.g] < MaxStreams
          /\ voiceConnections' = playerPlay(voiceConnections, c.g)
          /\ calls' = Resume(c)
          /\ last' = [op |-> "queueSong:start", g |-> c.g, mediaInfo |-> c.mediaInfo,
                      len0 |-> c.len0, playing |-> getPlayingState(c.g),
                      volume |-> NoVolume,
                      res |-> "mediaInfo", player |-> <<"play">>]
     ELSE playEnter(c.g, Null, alone, voiceConnections, Resume(c), "queueSong:play")
  /\ UNCHANGED <<connections, volume, votes, queue>>

\* a call of play; mediaInfo is Null when none is passed
Play(g, mediaInfo, alone) ==
  /\ playEnter(g, mediaInfo, alone, voiceConnections, calls, "play")
  /\ UNCHANGED <<connections, volume, votes, queue>>

\* play, after queue.getLength (Music.js:171-174): noSongs, or queue.shift
PlayLength(c) ==
  /\ c \in Pending /\ c.pc = "play:getLength"
  /\ IF c.len = 0
     THEN /\ calls' = Resume(c)
          /\ queue' = queue
          /\ last' = [op |-> "play:getLength", g |-> c.g, res |-> "noSongs",
                      retries |-> c.retries, player |-> <<>>]
     ELSE /\ queue' = [queue EXCEPT ![c.g] = queueShift(@)]
          /\ calls' = Resume(c) (+)
                SetToBag({[pc |-> "play:shift", g |-> c.g, mediaInfo |-> c.mediaInfo,
                           item |-> IF queue[c.g] = <<>> THEN QueueEmpty
                                    ELSE Head(queue[c.g]),
                           retries |-> c.retries]})
          /\ last' = [op |-> "play:getLength", g |-> c.g, res |-> "pending",
                      retries |-> c.retries, before |-> queue[c.g],
                      player |-> <<>>]
  /\ UNCHANGED <<connections, volume, votes, voiceConnections>>

\* play, after queue.shift (Music.js:174-183): QueueEmpty propagates, passed
\* metadata is played at once, otherwise the item's url is resolved
PlayShift(c) ==
  /\ c \in Pending /\ c.pc = "play:shift"
  /\ IF c.item = QueueEmpty \/ (c.mediaInfo = Null /\ c.item = Null)
     THEN /\ calls' = Resume(c)
          /\ voiceConnections' = voiceConnections
          /\ last' = [op |-> "play:shift", g |-> c.g,
                      res |-> IF c.item = QueueEmpty THEN "QueueEmpty" ELSE "TypeError",
                      playing |-> getPlayingState(c.g), player |-> <<>>]
     ELSE IF c.mediaInfo # Null
     THEN /\ voiceConnections[c.g] < MaxStreams
          /\ calls' = Resume(c)
          /\ voiceConnections' = playerPlay(voiceConnections, c.g)
          /\ last' = [op |-> "play:shift", g |-> c.g, res |-> "player.play",
                      mediaInfo |-> c.mediaInfo, volume |-> playVolume(volume[c.g]),
                      playing |-> getPlayingState(c.g), player |-> <<"play">>]
     ELSE /\ calls' = Resume(c) (+)
                SetToBag({[pc |-> "play:getInfo", g |-> c.g, url |-> c.item.url,
                           volume |-> playVolume(volume[c.g]),
                           bound |-> getBoundChannel(c.g),
                           retries |-> c.retries]})
          /\ voiceConnections' = voiceConnections
          /\ last' = [op |-> "play:shift", g |-> c.g, res |-> "pending",
                      playing |-> getPlayingState(c.g), player |-> <<>>]
  /\ UNCHANGED <<connections, volume, votes, queue>>

\* the player calls of Music.js:192-195
playCalls(playing) == IF playing THEN <<"stop", "play">> ELSE <<"play">>

\* play puts the popped item back when its resolution is rejected
PlayRejectedRequeues(c, r) ==
  /\ calls' = Resume(c)
  /\ queue' = [queue EXCEPT ![c.g] = <<[url |-> c.url, audiourl |-> FALSE,
                                        length |-> length_seconds(c.url)]>> \o @]
  /\ last' = [op |-> "play:getInfo", g |-> c.g, res |-> r.e,
              playing |-> getPlayingState(c.g), player |-> <<>>]
  /\ UNCHANGED voiceConnections

\* play, when getInfo is rejected (Music.js:184-186)
playRejected(c, r) ==
  /\ calls' = Resume(c)
  /\ last' = [op |-> "play:getInfo", g |-> c.g, res |-> r.e,
              playing |-> getPlayingState(c.g), player |-> <<>>]
  /\ UNCHANGED <<queue, voiceConnections>>

\* play, after getInfo (Music.js:184-195): the error propagates; without
\* metadata the queue is cleared and play starts over; otherwise the running
\* stream is stopped and the resolved one played
PlayResume(c, r, alone) ==
  /\ c \in Pending /\ c.pc = "play:getInfo"
  /\ r \in getInfoResults(c.url)
  /\ IF r.t = "reject"
     THEN playRejected(c, r)
     ELSE IF r.v = Null
     THEN /\ queue' = [queue EXCEPT ![c.g] = queueRemove(@)]
          /\ IF alone
             THEN /\ voiceConnections' = playerStop(voiceConnections, c.g)
                  /\ calls' = Resume(c)
                  /\ last' = [op |-> "play:retry", g |-> c.g,
                              playing |-> getPlayingState(c.g),
                              retries |-> c.retries + 1,
                              res |-> "player.stop", player |-> <<"stop">>]
             ELSE /\ voiceConnections' = voiceConnections
                  /\ calls' = Resume(c) (+)
                       SetToBag({[pc |-> "play:getLength", g |-> c.g,
                                  mediaInfo |-> Null,
                                  len |-> queueLength(queueRemove(queue[c.g])),
                                  retries |-> c.retries + 1]})
                  /\ last' = [op |-> "play:retry", g |-> c.g,
                              playing |-> getPlayingState(c.g),
                              retries |-> c.retries + 1,
                              res |-> "pending", player |-> <<>>]
     ELSE /\ calls' = Resume(c)
          /\ queue' = queue
          /\ voiceConnections' =
               IF playCalls(getPlayingState(c.g)) = <<"stop", "play">>
               THEN playerPlay(playerStop(voiceConnections, c.g), c.g)
               ELSE playerPlay(voiceConnections, c.g)
          /\ last' = [op |-> "play:getInfo", g |-> c.g, res |-> "player.play",
                      mediaInfo |-> r.v, volume |-> c.volume, bound |-> c.bound,
                      playing |-> getPlayingState(c.g),
                      player |-> playCalls(getPlayingState(c.g))]
  /\ UNCHANGED <<connections, volume, votes>>

\* Music.js:198-200, in hundredths: (percent * 2) / 100
setVolume(percent) == percent * 2

SetVolume(g, percent) ==
  /\ volume' = [volume EXCEPT ![g] = setVolume(percent)]
  /\ last' = [op |-> "setVolume", g |-> g, percent |-> percent, res |-> "undefined",
              player |-> <<>>]
  /\ UNCHANGED <<connections, votes, queue, voiceConnections, calls>>

\* the end of a stream empties the session's vote set
PlaybackEndClearsVotes(g, alone) ==
  /\ voiceConnections[g] > 0
  /\ playEnter(g, Null, alone, [voiceConnections EXCEPT ![g] = @ - 1], calls,
               "playbackEnd")
  /\ votes' = [votes EXCEPT ![g] = Array(<<>>)]
  /\ UNCHANGED <<connections, volume, queue>>

\* a stream ends by itself; the player then asks for the next item
PlaybackEnd(g, alone) ==
  /\ voiceConnections[g] > 0
  /\ playEnter(g, Null, alone, [voiceConnections EXCEPT ![g] = @ - 1], calls,
               "playbackEnd")
  /\ UNCHANGED <<connections, volume, votes, queue>>

\* ------------------------------------------------------------ the program
\* inputs
Percents == {0, 50, 100}
Refs == [object : BOOLEAN, url : 0..NumUrls]
Session == "g1"
\* play is called without metadata or with resolved metadata
PlayInputs == {Null} \cup {Info(u) : u \in Urls}

\* this.votes is not created in Music.js; it starts as an empty Map
votesInit == [g \in Guilds |-> Undefined]

Init ==
  /\ connections = [g \in Guilds |-> None]
  /\ volume = [g \in Guilds |-> -1]
  /\ votes = votesInit
  /\ queue = [g \in Guilds |-> <<>>]
  /\ voiceConnections = [g \in Guilds |-> -1]
  /\ calls = EmptyBag
  /\ last = [op |-> "init", g |-> None, res |-> "undefined", player |-> <<>>]

\* The actions, with at most n calls in flight after each.
Binding(n) ==
  \/ \E g \in Guilds, c \in ChannelIds : BindChannel(g, c) /\ AtMost(n)
  \/ \E g \in Guilds : UnbindChannel(g) /\ AtMost(n)
  \/ \E v \in VoiceIds \cup {None}, t \in TextChannels, p \in BOOLEAN :
       Connect(v, t, p) /\ AtMost(n)
  \/ \E c \in Pending, ok \in BOOLEAN : ConnectJoined(c, ok) /\ AtMost(n)

Voting(G, n) ==
  \/ \E g \in G, a \in Voters, f \in BOOLEAN : Skip(g, a, f) /\ AtMost(n)
  \/ \E c \in Pending, m \in 1..MaxMembers : SkipResume(c, m) /\ AtMost(n)

Playback(G, n) ==
  \/ \E g \in G, r \in Refs : Add(g, r) /\ AtMost(n)
  \/ \E c \in Pending, u \in Urls :
       \E r \in getInfoResults(u) : AddResume(c, r) /\ AtMost(n)
  \/ \E g \in G, m \in MediaInfos : QueueSong(g, m) /\ AtMost(n)
  \/ \E c \in Pending, alone \in BOOLEAN : QueueSongResume(c, alone) /\ AtMost(n)
  \/ \E g \in G, m \in PlayInputs, alone \in BOOLEAN : Play(g, m, alone) /\ AtMost(n)
  \/ \E c \in Pending : PlayLength(c) /\ AtMost(n)
  \/ \E c \in Pending : PlayShift(c) /\ AtMost(n)
  \/ \E c \in Pending, u \in Urls, alone \in BOOLEAN :
       \E r \in getInfoResults(u) : PlayResume(c, r, alone) /\ AtMost(n)
  \/ \E g \in G, alone \in BOOLEAN : PlaybackEnd(g, alone) /\ AtMost(n)

Volume(G) == \E g \in G, p \in Percents : SetVolume(g, p)

Next ==
  \/ Binding(MaxCalls)
  \/ Voting(Guilds, MaxCalls)
  \/ Playback(Guilds, MaxCalls)
  \/ Volume(Guilds)

Spec == Init /\ [][Next]_vars

\* binding and connecting, all guilds
SpecBind == Init /\ [][Binding(MaxCalls)]_vars

\* one session, connected by an earlier connect
InitSession ==
  /\ connections = [g \in Guilds |-> IF g = Session THEN "c1" ELSE None]
  /\ volume = [g \in Guilds |-> -1]
  /\ votes = votesInit
  /\ queue = [g \in Guilds |-> <<>>]
  /\ voiceConnections = [g \in Guilds |-> IF g = Session THEN 0 ELSE -1]
  /\ calls = EmptyBag
  /\ last = [op |-> "init", g |-> None, res |-> "undefined", player |-> <<>>]

\* add, queueSong, play and the end of playback on that session
SpecPlay == InitSession /\ [][Playback({Session}, MaxCalls)]_vars

\* the same, one call at a time
SpecSeq == InitSession /\ [][Playback({Session}, 1)]_vars

\* the session with some items queued, as add and queueSong leave it
InitVote ==
  /\ connections = [g \in Guilds |-> IF g = Session THEN "c1" ELSE None]
  /\ volume = [g \in Guilds |-> -1]
  /\ votes = votesInit
  /\ \E n \in 0..MaxQueue :
       queue = [g \in Guilds |-> IF g = Session THEN [i \in 1..n |-> Info(1)] ELSE <<>>]
  /\ voiceConnections = [g \in Guilds |-> IF g = Session THEN 0 ELSE -1]
  /\ calls = EmptyBag
  /\ last = [op |-> "init", g |-> None, res |-> "undefined", player |-> <<>>]

\* skip calls on that session
SpecVote == InitVote /\ [][Voting({Session}, MaxCalls)]_vars

\* the resolver's inputs: the expire parameters of stream urls, the clock,
\* and the backend's answers (at most one candidate stream)
Expiries == {900, 1000, 2000}
Times == {5000, 6000}
LiveInfos ==
  {[error |-> TRUE], Null} \cup
  {[formats |-> fs] :
     fs \in {<<>>} \cup {<<f>> : f \in FormatsOf({-1, 0} \cup Expiries)}}

Resolving ==
  \/ \E u \in Urls : GetInfo(u) /\ AtMost(1)
  \/ \E c \in Pending, r \in CacheReads : GetInfoCache(c, r) /\ AtMost(1)
  \/ \E c \in Pending, i \in LiveInfos, t \in Times : GetInfoLive(c, i, t) /\ AtMost(1)

\* getInfo calls, one at a time
SpecResolve == Init /\ [][Resolving]_vars

\* candidate lists of up to MaxFormats streams, with or without a url
FormatLists == UNION {[1..n -> FormatsOf({-1, 0})] : n \in 0..MaxFormats}

InitFormats ==
  /\ connections = [g \in Guilds |-> None]
  /\ volume = [g \in Guilds |-> -1]
  /\ votes = votesInit
  /\ queue = [g \in Guilds |-> <<>>]
  /\ voiceConnections = [g \in Guilds |-> -1]
  /\ calls = EmptyBag
  /\ \E fs \in FormatLists :
       last = [op |-> "formats", g |-> None, formats |-> fs, res |-> "undefined",
               player |-> <<>>]

\* best-audio selection on every candidate list
SpecFormats == InitFormats /\ [][GetBestAudio]_vars

\* the same with setVolume calls, one call at a time
SpecVolume == InitSession /\ [][Playback({Session}, 1) \/ Volume({Session})]_vars

\* the same with the session unbound at any moment, one call at a time
SpecStale ==
  InitSession /\ [][Playback({Session}, 1) \/ UnbindChannel(Session)]_vars

\* every operation on the one session, one call at a time, each with one
\* input: the channel "c1", the reference 1, half volume, a full channel
Operations ==
  \/ BindChannel(Session, "c1") /\ AtMost(1)
  \/ UnbindChannel(Session) /\ AtMost(1)
  \/ Connect("v1", [id |-> "c1", guild |-> Session], TRUE) /\ AtMost(1)
  \/ \E c \in Pending, ok \in BOOLEAN : ConnectJoined(c, ok) /\ AtMost(1)
  \/ \E a \in Voters : Skip(Session, a, FALSE) /\ AtMost(1)
  \/ \E c \in Pending : SkipResume(c, MaxMembers) /\ AtMost(1)
  \/ Add(Session, [object |-> FALSE, url |-> 1]) /\ AtMost(1)
  \/ \E c \in Pending : \E r \in getInfoResults(1) : AddResume(c, r) /\ AtMost(1)
  \/ QueueSong(Session, Info(1)) /\ AtMost(1)
  \/ \E c \in Pending : QueueSongResume(c, FALSE) /\ AtMost(1)
  \/ Play(Session, Null, FALSE) /\ AtMost(1)
  \/ \E c \in Pending : PlayLength(c) /\ AtMost(1)
  \/ \E c \in Pending : PlayShift(c) /\ AtMost(1)
  \/ \E c \in Pending : \E r \in getInfoResults(1) : PlayResume(c, r, FALSE) /\ AtMost(1)
  \/ PlaybackEnd(Session, FALSE) /\ AtMost(1)
  \/ SetVolume(Session, 50) /\ AtMost(1)

SpecFrame == Init /\ [][Operations]_vars

\* ------------------------------------------------------------------ claims

\* the step just taken told the player to play
IssuedPlay ==
  /\ last.op \in {"queueSong:start", "play:shift", "play:getInfo"}
  /\ includes(last.player, "play")

\* C1: the player is never asked to start a stream on a session that has
\* one running: no connection ever has two streams, and a player.play issued
\* while the session plays comes right after a player.stop.
C1_NoDoublePlay ==
  /\ \A g \in Guilds : voiceConnections[g] <= 1
  /\ (IssuedPlay /\ last.playing) => last.player = <<"stop", "play">>

\* C2: a queueSong call that found the session idle and had resolved
\* metadata leaves the session playing and the queue as long as it was
\* before the call.
C2_IdleAddKeepsLength ==
  (last.op = "queueSong:start" /\ last.res = "mediaInfo")
    => /\ getPlayingState(last.g)
       /\ Len(queue[last.g]) = last.len0

\* C3: queueSong on a playing session appends the item at the back of the
\* queue, which grows by exactly one, returns the item and calls the player
\* not at all.
C3_PlayingAddAppends ==
  (last.op = "queueSong" /\ last.playing)
    => /\ queue[last.g] = Append(last.before, last.mediaInfo)
       /\ Len(queue[last.g]) = Len(last.before) + 1
       /\ last.player = <<>>
       /\ last.res = "mediaInfo"

C3_Witness ==
  /\ last.op = "queueSong" /\ last.playing
  /\ Len(last.before) >= 1
  /\ last.before[1] # last.mediaInfo

\* C4: add rejects with tooLong exactly the resolved lengths above 5400:
\* a rejected length is above 5400 and a length routed into queueSong is
\* not; 5401 is rejected, 5400 is queued.
C4_TooLongIffOver5400 ==
  /\ (last.op = "add" /\ last.res = "tooLong") => last.length > 5400
  /\ (last.op = "queueSong" /\ last.via = "add" /\ last.mediaInfo # Null)
       => last.mediaInfo.length <= 5400

C4_Witness ==
  /\ last.op = "add" /\ last.res = "tooLong" /\ last.length = 5401
  /\ \E i \in 1..Len(queue[last.g]) :
       queue[last.g][i] # Null /\ queue[last.g][i].length = 5400

\* the last step was a vote that counted: not forced, more than 2 members,
\* more than one item queued, by an author not in the vote set
CountedVote ==
  /\ last.op = "skip" /\ ~last.force
  /\ last.members > 2 /\ last.len > 1
  /\ ~includes(last.before, last.author)

\* C5: a counted vote below half of the members is stored and answered
\* voteSuccess without player.skip; from half of the members on the vote
\* set is emptied and player.skip called once.  With 5 members that is the
\* third vote.
C5_VoteQuorum ==
  CountedVote =>
    LET n == Len(last.before) + 1 IN
    /\ IF 2 * n < last.members
       THEN /\ votes[last.g] = Array(Append(last.before, last.author))
            /\ last.res = "voteSuccess"
            /\ last.player = <<>>
       ELSE /\ votesOrEmpty(votes[last.g]) = <<>>
            /\ last.res = "skip"
            /\ last.player = <<"skip">>
    /\ last.members = 5 => (last.res = "voteSuccess" <=> n <= 2)

C5_Witness ==
  /\ CountedVote /\ last.members = 5 /\ Len(last.before) = 2
  /\ last.res = "skip"
  /\ votesOrEmpty(votes[last.g]) = <<>>

\* no voter is twice in a vote set
NoDuplicateVotes ==
  \A g \in Guilds :
    LET a == votesOrEmpty(votes[g]) IN
    \A i, j \in 1..Len(a) : a[i] = a[j] => i = j

\* C6 as stated: a vote set holds no voter twice, and every unforced skip by
\* a voter already in it is answered alreadyVoted, changes nothing and does
\* not call player.skip.
C6_RepeatVoteAlwaysRejected ==
  /\ NoDuplicateVotes
  /\ (last.op = "skip" /\ ~last.force /\ includes(last.before, last.author))
       => /\ last.res = "alreadyVoted"
          /\ votesOrEmpty(votes[last.g]) = last.before
          /\ last.player = <<>>

\* C6 amended: the same for the skips that reach the vote: more than one
\* item queued and more than 2 members in the channel.
C6_RepeatVoteRejected ==
  /\ NoDuplicateVotes
  /\ (last.op = "skip" /\ ~last.force /\ last.len > 1 /\ last.members > 2
        /\ includes(last.before, last.author))
       => /\ last.res = "alreadyVoted"
          /\ votes[last.g] = Array(last.before)
          /\ last.player = <<>>

C6_Witness ==
  /\ last.op = "skip" /\ last.res = "alreadyVoted"
  /\ Len(last.before) = 2

\* C7: after a forced skip that called player.skip the vote set is empty.
C7_ForcedSkipResetsVotes ==
  (last.op = "skip" /\ last.force /\ last.player = <<"skip">>)
    => votesOrEmpty(votes[last.g]) = <<>>

\* connect was given a voice target and a guild's text channel
ValidConnect ==
  /\ last.op = "connect" /\ last.voiceID # None
  /\ last.textChannel # Null /\ last.textChannel.guild # None

\* every guild is bound to one channel or to none
OneBinding == \A g \in Guilds : connections[g] \in ChannelIds \cup {None}

\* C8 as stated: binding the bound channel again changes nothing, and
\* binding another channel, by bindChannel or by connect, fails with
\* alreadyBinded and keeps the binding.
C8_SecondBindingRejected ==
  /\ OneBinding
  /\ (last.op = "bindChannel" /\ last.bound = last.c)
       => connections[last.g] = last.c
  /\ (last.op = "bindChannel" /\ last.bound \notin {None, last.c})
       => (last.res = "alreadyBinded" /\ connections[last.g] = last.bound)
  /\ (ValidConnect /\ last.bound \notin {None, last.textChannel.id})
       => (last.res = "alreadyBinded" /\ connections[last.g] = last.bound)

\* C8 amended: connect refuses another channel; bindChannel replaces the
\* binding and reports nothing.
C8_SecondBinding ==
  /\ OneBinding
  /\ (last.op = "bindChannel" /\ last.bound = last.c)
       => connections[last.g] = last.c
  /\ (last.op = "bindChannel" /\ last.bound \notin {None, last.c})
       => (last.res = "undefined" /\ connections[last.g] = last.c)
  /\ (ValidConnect /\ last.bound \notin {None, last.textChannel.id})
       => (last.res = "alreadyBinded" /\ connections[last.g] = last.bound)

C8_Witness ==
  /\ ValidConnect /\ last.bound \notin {None, last.textChannel.id}
  /\ last.res = "alreadyBinded"

\* C9: connect answers notChannel, else alreadyBinded, else noPerms, in
\* that order, and calls joinVoiceChannel only when none applies; a failed
\* join is answered with the rejection 'error'.
C9_ConnectCheckOrder ==
  /\ last.op = "connect" =>
       IF ~ValidConnect
       THEN last.res = "notChannel" /\ ~last.joinVoiceChannel
       ELSE IF last.bound \notin {None, last.textChannel.id}
       THEN last.res = "alreadyBinded" /\ ~last.joinVoiceChannel
       ELSE IF ~last.perms
       THEN last.res = "noPerms" /\ ~last.joinVoiceChannel
       ELSE last.res = "pending" /\ last.joinVoiceChannel
  /\ (last.op = "connect:join" /\ ~last.ok) => last.res = "error"

C9_Witness ==
  /\ ValidConnect /\ ~last.perms
  /\ last.res = "alreadyBinded"

\* C10: a connect on an unbound session that is rejected with noPerms
\* leaves the session unbound.
C10_NoPermsLeavesUnbound ==
  (last.op = "connect" /\ last.res = "noPerms" /\ last.bound = None)
    => getBoundChannel(last.g) = None

\* C11: a getInfo call whose cache read failed, found no entry or found an
\* entry that does not parse goes on to the live resolution and settles as
\* the live resolution does: it resolves when the live resolution succeeds.
C11_CacheNeverBlocks ==
  (last.op = "getInfo" /\ last.cache \in {"error", "miss", "corrupt"})
    => /\ last.live # "notCalled"
       /\ last.live = "ok" => last.res.t = "resolve"

\* the candidate set of a list: the streams with a webm itag if there are
\* any, else those with an mp4 itag if there are any, else those in an mp4
\* container
Family(formats) ==
  LET IsWebm(f) == f.itag \in {249, 250, 251}
      IsMp4(f) == f.itag \in {141, 140, 139}
      IsMp4Container(f) == Container(f.itag) = "mp4"
  IN  IF SelectSeq(formats, IsWebm) # <<>> THEN SelectSeq(formats, IsWebm)
      ELSE IF SelectSeq(formats, IsMp4) # <<>> THEN SelectSeq(formats, IsMp4)
      ELSE SelectSeq(formats, IsMp4Container)

FamilyTag(formats) ==
  IF \E i \in 1..Len(formats) : formats[i].itag \in {249, 250, 251}
  THEN "webm" ELSE "mp4"

\* the positions of s a selection may take: the audio-only streams with an
\* audio bitrate, or without such a stream those with an audio bitrate
Eligible(s) ==
  LET only == {i \in 1..Len(s) : s[i].audioBitrate > 0 /\ s[i].bitrate = 0}
  IN  IF only # {} THEN only ELSE {i \in 1..Len(s) : s[i].audioBitrate > 0}

\* the list {itag 250, audio bitrate 70, audio only}, {itag 140, audio
\* bitrate 128, mixed}
ExampleFormats ==
  << [itag |-> 250, audioBitrate |-> 70, bitrate |-> 0, url |-> 0],
     [itag |-> 140, audioBitrate |-> 128, bitrate |-> 1, url |-> 0] >>

\* C12: a stream chosen by getBestAudio comes from the list's candidate set
\* (webm itags before mp4 itags before mp4 container) and carries that set's
\* tag; it is an eligible stream of the set with the highest audio bitrate;
\* a stream is chosen whenever the set has eligible streams and they have
\* urls.  From the example list the stream with itag 250 is chosen.
C12_BestAudioSelection ==
  last.op = "getBestAudio" =>
    LET fam == Family(last.formats)
        el == Eligible(fam)
        chosen == last.res \notin {Undefined, Thrown("TypeError")}
    IN  /\ chosen =>
             /\ last.res._format = FamilyTag(last.formats)
             /\ \E i \in el :
                  /\ fam[i] = last.res.found
                  /\ \A j \in el : fam[j].audioBitrate <= fam[i].audioBitrate
        /\ (el # {} /\ \A i \in el : fam[i].url # -1) => chosen
        /\ last.formats = ExampleFormats => last.res = Found(ExampleFormats[1], "webm")

C12_Witness ==
  /\ last.op = "getBestAudio" /\ last.formats = ExampleFormats
  /\ last.res.found.itag = 250

\* C17: when the chosen stream's url carries an expire parameter E, the
\* expires field of the resolved metadata is the absolute time E - 900,
\* whatever the time of the resolution.
C17_AbsoluteExpiry ==
  (last.op = "getInfo" /\ last.live = "ok" /\ last.expire > 0)
    => last.res.v.expires = Num(last.expire - ExpireMargin)

\* the calls of play in flight
PlayCalls ==
  {c \in Pending : c.pc \in {"play:getLength", "play:shift", "play:getInfo"}}

\* a bound on the steps a call in flight still takes: a play call that
\* has used its retry has only its length check left
Rank(c) ==
  IF c \in PlayCalls
  THEN (IF c.retries = 0 THEN 3 ELSE 0) +
       (CASE c.pc = "play:getLength" -> 3
          [] c.pc = "play:shift" -> 2
          [] c.pc = "play:getInfo" -> 1)
  ELSE IF c.pc = "queueSong:add" THEN 7
  ELSE IF c.pc = "add:getInfo" THEN 8
  ELSE IF c.pc = "getInfo:redis" THEN 2
  ELSE 1

RECURSIVE SumRank(_, _)
SumRank(B, S) ==
  IF S = {} THEN 0
  ELSE LET c == CHOOSE x \in S : TRUE
       IN  CopiesIn(c, B) * Rank(c) + SumRank(B, S \ {c})

TotalRank(B) == SumRank(B, BagToSet(B))

\* C13: play ends.  A play call retries only after the resolution of the
\* item it popped gave nothing, the retry finds the queue cleared, reads
\* length 0 and ends with noSongs, so no call retries twice; and every step
\* that continues a call in flight brings the calls nearer to their end.
C13_PlayTerminates ==
  [][ /\ \A c \in BagToSet(calls') :
           c.pc \in {"play:getLength", "play:shift", "play:getInfo"} =>
             /\ c.retries <= 1
             /\ c.retries = 1 => (c.pc = "play:getLength" /\ c.len = 0)
      /\ last'.op = "play:retry" =>
           /\ last'.retries = 1
           /\ queue'[last'.g] = <<>>
      /\ (last'.op = "play:getLength" /\ last'.retries = 1) =>
           last'.res = "noSongs"
      /\ (calls' # calls /\ BagCardinality(calls') <= BagCardinality(calls)) =>
           TotalRank(calls') < TotalRank(calls)
    ]_vars

C13_Witness ==
  /\ last.op = "play:getLength" /\ last.retries = 1 /\ last.res = "noSongs"
  /\ calls = EmptyBag

\* C14: once setVolume has stored a multiplier for a session, every
\* player.play issued for the session is given the multiplier stored at
\* that moment.
C14_VolumeApplied ==
  (IssuedPlay /\ volume[last.g] # -1) => last.volume = volume[last.g]

\* C15: the calls on a session do not interleave between reading its
\* state and acting on it: play never shifts an empty queue, so of two play
\* calls on a one-item queue the second ends with noSongs, and queueSong
\* starts a stream at once only on a session that is still idle, so of two
\* add calls on an idle session the second appends.
C15_NoInterleaving ==
  /\ (last.op = "play:getLength" /\ last.res = "pending") => last.before # <<>>
  /\ last.op = "play:shift" => last.res # "QueueEmpty"
  /\ (last.op = "queueSong:start" /\ last.res = "mediaInfo") => ~last.playing

\* C16: a play call whose resolution began on a bound session and ends
\* after the session was unbound issues no player.play from the result.
C16_StaleDiscarded ==
  (last.op = "play:getInfo" /\ last.res = "player.play" /\ last.bound # None)
    => getBoundChannel(last.g) # None

\* C18: a rejected add leaves the session's queue as it was and calls the
\* player not at all, whether add rejects by itself (invalidURL, an error of
\* the resolver, tooLong) or with the rejection of the queueSong call it
\* ends in; queueSong is handed no metadata (null) only by add.
C18_RejectedAddChangesNothing ==
  /\ last.op = "add" => (queue[last.g] = last.before /\ last.player = <<>>)
  /\ (last.op = "queueSong:start" /\ last.res = "TypeError")
       => (Len(queue[last.g]) = last.len0 /\ last.player = <<>>)

\* the calls in flight that are at one of the given places
CallsAt(pcs) == {c \in Pending : c.pc \in pcs}

\* C19: a play call without metadata whose resolution is rejected has
\* popped the front item before it resolves and does nothing else to the
\* queue: its shift takes the head off a queue that is not empty and leaves
\* the rest in order, and the rejection is the resolver's error, changes
\* neither the queue nor the playing state and calls the player not at all.
C19_RejectedPlayKeepsShift ==
  [][ /\ (last'.op = "play:getLength" /\ last'.res = "pending") =>
           /\ queue[last'.g] # <<>>
           /\ queue'[last'.g] = Tail(queue[last'.g])
      /\ (last'.op = "play:getInfo" /\ last'.res # "player.play") =>
           /\ \E c \in CallsAt({"play:getInfo"}) :
                Rejected(last'.res) \in getInfoResults(c.url)
           /\ UNCHANGED <<queue, voiceConnections>>
           /\ last'.player = <<>>
    ]_vars

C19_Witness ==
  /\ last.op = "play:getInfo" /\ last.res = "noVideoFound"
  /\ queue[last.g] # <<>>

\* C20: only skip changes a vote set: a step of bindChannel,
\* unbindChannel, connect, add, queueSong, play, setVolume or the end of a
\* stream leaves every vote set as it was, so the votes cast while one item
\* plays are still there after playback has moved on.
C20_OnlySkipChangesVotes ==
  [][votes' # votes => last'.op = "skip"]_vars

C20_Witness ==
  /\ last.op = "playbackEnd"
  /\ Len(votesOrEmpty(votes[last.g])) = 2

====
